---- MODULE Spec2Model ----
(***************************************************************************)
(* SimpleOBS core: Engine (scene table, streaming thread), SceneImpl       *)
(* (ordered source collection, render) and BaseSource (active flag).       *)
(* The caller thread issues the Engine/Scene/Source calls; the background  *)
(* thread runs Engine::Impl::streamingLoop.                                *)
(***************************************************************************)
EXTENDS Integers, Sequences, FiniteSets, TLC

\* ---- bounds of the model ------------------------------------------------
MaxScenes == 2      \* SceneImpl objects alive between two calls
NumSources == 3     \* BaseSource objects
NumRaceSources == 2 \* BaseSource objects the concurrent clients pass around
NumClients == 2     \* threads that call into a Scene or a Source concurrently
MaxThreads == 2     \* std::thread objects alive at the same time
TickCap == 2        \* saturation of the ghost tick counter

Names == {"A", "B"}                  \* scene names passed to createScene
Ids == {"color_source", "x264"}      \* component ids passed to create*
\* one identity more than MaxScenes: createScene constructs the new Scene before
\* the table lets go of the one it replaces
SceneIds == 1..(MaxScenes + 1)
SourceIds == 1..NumSources
RaceSourceIds == 1..NumRaceSources
ThreadIds == 1..MaxThreads
ClientIds == 1..NumClients

VARIABLES
    \* Engine::Impl members
    scenes_,            \* name -> SceneImpl object (0: no entry)
    streaming_,         \* std::atomic<bool>
    streaming_thread_,  \* std::thread handle: 0 not joinable, else the thread
    \* threads
    thread,             \* background thread -> position in streamingLoop
    caller,             \* the caller thread: idle, or blocked in a join
    ret,                \* the last call that returned: its value and out-frame
    \* SceneImpl members, per object
    alive,              \* the object exists (between constructor and destructor)
    name_,
    initialized_,
    sources_,           \* std::vector<SourcePtr>
    held,               \* the caller holds a ScenePtr to the object
    \* BaseSource members
    active_,
    \* observation of the loop
    ticksAfterStop,     \* ticks completed since the stop signal was set
    tickLog,            \* render calls the loop made in the current tick
    \* threads inside a SceneImpl call
    client              \* client thread -> the call it is in and its position

engineVars == <<scenes_, streaming_, streaming_thread_>>
threadVars == <<thread, caller, ret>>
sceneVars  == <<alive, name_, initialized_, sources_, held>>
sourceVars == <<active_>>
clientVars == <<client>>
ghostVars  == <<ticksAfterStop, tickLog>>
vars == <<engineVars, threadVars, sceneVars, sourceVars, clientVars, ghostVars>>

Range(f) == {f[i] : i \in DOMAIN f}

\* a client thread that is in no call
IdleClient ==
    [op |-> "none", pc |-> "idle", sc |-> 0, s |-> 0, kind |-> "none",
     i |-> 0, stale |-> FALSE]

\* a VideoFrame / AudioFrame nobody has filled
EmptyFrame ==
    [kind |-> "none", src |-> 0, width |-> 0, height |-> 0,
     samples |-> 0, sample_rate |-> 0, channels |-> 0]

\* call `op` returned `val`; the frame is the one passed to render, fresh at the call
Ret(op, val) == [op |-> op, val |-> val, arg |-> 0, frame |-> EmptyFrame]

\* a void call returned: the call and the object it was given or made on
RetArg(op, s) == [Ret(op, "void") EXCEPT !.arg = s]

\* ---- construction ---------------------------------------------------------
\* Engine::Impl() : streaming_(false); no scene yet, sources constructed inactive.
Init ==
    /\ scenes_ = [n \in Names |-> 0]
    /\ streaming_ = FALSE
    /\ streaming_thread_ = 0
    /\ thread = [t \in ThreadIds |-> "none"]
    /\ caller = "idle"
    /\ ret = Ret("Impl", "void")
    /\ alive = [sc \in SceneIds |-> FALSE]
    /\ name_ = [sc \in SceneIds |-> ""]
    /\ initialized_ = [sc \in SceneIds |-> FALSE]
    /\ sources_ = [sc \in SceneIds |-> <<>>]
    /\ held = [sc \in SceneIds |-> FALSE]
    /\ active_ = [s \in SourceIds |-> FALSE]
    /\ client = [t \in ClientIds |-> IdleClient]
    /\ ticksAfterStop = 0
    /\ tickLog = <<>>

\* ---- BaseSource -----------------------------------------------------------
isActive(s) == active_[s]

\* BaseSource::getName: the name the constructor was given; a name is a label,
\* and two Source objects may carry the same one
getName(s) == IF s % 2 = 1 THEN "camera" ELSE "microphone"

\* ---- SceneImpl ------------------------------------------------------------
\* an initialize that empties the collection each time it runs
SceneInitialize_clear(sc) ==
    /\ UNCHANGED clientVars
    /\ caller = "idle"
    /\ alive[sc] /\ held[sc]
    /\ initialized_' = [initialized_ EXCEPT ![sc] = TRUE]
    /\ sources_' = [sources_ EXCEPT ![sc] = <<>>]
    /\ ret' = Ret("Scene.initialize", TRUE)
    /\ UNCHANGED <<engineVars, thread, caller, alive, name_, held,
                   sourceVars, ghostVars>>

\* SceneImpl::initialize
SceneInitialize(sc) ==
    /\ UNCHANGED clientVars
    /\ caller = "idle"
    /\ alive[sc] /\ held[sc]
    /\ initialized_' = [initialized_ EXCEPT ![sc] = TRUE]
    /\ ret' = Ret("Scene.initialize", TRUE)
    /\ UNCHANGED <<engineVars, thread, caller, alive, name_, sources_, held,
                   sourceVars, ghostVars>>

\* ---- BaseSource, called from any thread ------------------------------------
FrameWidth == 1920
FrameHeight == 1080
AudioSamples == 480
AudioSampleRate == 48000
AudioChannels == 1

\* a video frame with width and height exchanged
FilledFrame_swapped(kind, s) ==
    IF kind = "video"
    THEN [kind |-> "video", src |-> s, width |-> FrameHeight, height |-> FrameWidth,
          samples |-> 0, sample_rate |-> 0, channels |-> 0]
    ELSE [kind |-> "audio", src |-> s, width |-> 0, height |-> 0,
          samples |-> AudioSamples, sample_rate |-> AudioSampleRate,
          channels |-> AudioChannels]

\* the frame BaseSource::getVideoFrame / getAudioFrame writes for source s
FilledFrame(kind, s) ==
    IF kind = "video"
    THEN [kind |-> "video", src |-> s, width |-> FrameWidth, height |-> FrameHeight,
          samples |-> 0, sample_rate |-> 0, channels |-> 0]
    ELSE [kind |-> "audio", src |-> s, width |-> 0, height |-> 0,
          samples |-> AudioSamples, sample_rate |-> AudioSampleRate,
          channels |-> AudioChannels]

\* a start() that toggles the flag
start_toggle(s) ==
    /\ caller = "idle"
    /\ active_' = [active_ EXCEPT ![s] = ~active_[s]]
    /\ ret' = Ret("Source.start", "void")
    /\ UNCHANGED <<engineVars, thread, caller, sceneVars, clientVars, ghostVars>>

\* BaseSource::start
start(s) ==
    /\ caller = "idle"
    /\ active_' = [active_ EXCEPT ![s] = TRUE]
    /\ ret' = Ret("Source.start", "void")
    /\ UNCHANGED <<engineVars, thread, caller, sceneVars, clientVars, ghostVars>>

\* BaseSource::stop
stop(s) ==
    /\ caller = "idle"
    /\ active_' = [active_ EXCEPT ![s] = FALSE]
    /\ ret' = Ret("Source.stop", "void")
    /\ UNCHANGED <<engineVars, thread, caller, sceneVars, clientVars, ghostVars>>

\* BaseSource::initialize
sourceInitialize(s) ==
    /\ caller = "idle"
    /\ ret' = [Ret("Source.initialize", TRUE) EXCEPT !.arg = s]
    /\ UNCHANGED <<engineVars, thread, caller, sceneVars, sourceVars, clientVars,
                   ghostVars>>

\* a shutdown() that only logs
sourceShutdown_noStop(s) ==
    /\ caller = "idle"
    /\ ret' = RetArg("Source.shutdown", s)
    /\ UNCHANGED <<engineVars, thread, caller, sceneVars, sourceVars, clientVars,
                   ghostVars>>

\* BaseSource::shutdown: stop()
sourceShutdown(s) ==
    /\ caller = "idle"
    /\ active_' = [active_ EXCEPT ![s] = FALSE]
    /\ ret' = RetArg("Source.shutdown", s)
    /\ UNCHANGED <<engineVars, thread, caller, sceneVars, clientVars, ghostVars>>

\* a getVideoFrame / getAudioFrame that does not read active_
getFrame_noCheck(s, kind) ==
    /\ caller = "idle"
    /\ ret' = [Ret("Source.getFrame", TRUE) EXCEPT
                    !.arg = s, !.frame = FilledFrame(kind, s)]
    /\ UNCHANGED <<engineVars, thread, caller, sceneVars, sourceVars, clientVars,
                   ghostVars>>

\* BaseSource::getVideoFrame / getAudioFrame called on the source itself
getFrame(s, kind) ==
    /\ caller = "idle"
    /\ IF ~active_[s]
       THEN ret' = [Ret("Source.getFrame", FALSE) EXCEPT !.arg = s]
       ELSE ret' = [Ret("Source.getFrame", TRUE) EXCEPT
                        !.arg = s, !.frame = FilledFrame(kind, s)]
    /\ UNCHANGED <<engineVars, thread, caller, sceneVars, sourceVars, clientVars,
                   ghostVars>>

\* ---- SceneImpl, one statement at a time, called from client thread t ---------
\* (no statement of SceneImpl.cpp locks sourcesMutex_)
IndexOf(seq, s) ==
    CHOOSE i \in DOMAIN seq : seq[i] = s /\ \A j \in 1..(i - 1) : seq[j] # s

RemoveAt(seq, i) == SubSeq(seq, 1, i - 1) \o SubSeq(seq, i + 1, Len(seq))

\* client t returns from its call with value val
Done(t) == [client EXCEPT ![t] = IdleClient]

\* client t changes sources_ of sc and returns: the iterators other threads hold
\* on it are invalid (a loop over them no longer has a position)
Invalidate(t, sc) ==
    [u \in ClientIds |->
        IF u = t THEN IdleClient
        ELSE IF client[u].sc = sc /\ client[u].pc = "erase"
             THEN [client[u] EXCEPT !.stale = TRUE]
        ELSE IF client[u].sc = sc /\ client[u].pc = "scan"
             THEN [client[u] EXCEPT !.stale = TRUE, !.i = 0]
        ELSE client[u]]

\* an addSource without the already-present check
addSource_call_noDupCheck(t, sc, s) ==
    /\ caller = "idle" /\ client[t].pc = "idle" /\ alive[sc]
    /\ IF s = 0
       THEN /\ client' = Done(t)
            /\ ret' = RetArg("Scene.addSource", s)
       ELSE /\ client' = [client EXCEPT ![t] =
                    [IdleClient EXCEPT !.op = "addSource", !.pc = "push",
                                       !.sc = sc, !.s = s]]
            /\ UNCHANGED ret
    /\ UNCHANGED <<engineVars, thread, caller, sceneVars, sourceVars, ghostVars>>

\* an addSource without the null check
addSource_call_noNullCheck(t, sc, s) ==
    /\ caller = "idle" /\ client[t].pc = "idle" /\ alive[sc]
    /\ IF s \in Range(sources_[sc])
       THEN /\ client' = Done(t)
            /\ ret' = RetArg("Scene.addSource", s)
       ELSE /\ client' = [client EXCEPT ![t] =
                    [IdleClient EXCEPT !.op = "addSource", !.pc = "push",
                                       !.sc = sc, !.s = s]]
            /\ UNCHANGED ret
    /\ UNCHANGED <<engineVars, thread, caller, sceneVars, sourceVars, ghostVars>>

\* an addSource that compares names: a Source whose name is in the collection is
\* taken for present
addSource_call_byName(t, sc, s) ==
    /\ caller = "idle" /\ client[t].pc = "idle" /\ alive[sc]
    /\ IF s = 0 \/ \E o \in Range(sources_[sc]) : getName(o) = getName(s)
       THEN /\ client' = Done(t)
            /\ ret' = RetArg("Scene.addSource", s)
       ELSE /\ client' = [client EXCEPT ![t] =
                    [IdleClient EXCEPT !.op = "addSource", !.pc = "push",
                                       !.sc = sc, !.s = s]]
            /\ UNCHANGED ret
    /\ UNCHANGED <<engineVars, thread, caller, sceneVars, sourceVars, ghostVars>>

\* SceneImpl::addSource: null check and std::find
addSource_call(t, sc, s) ==
    /\ caller = "idle" /\ client[t].pc = "idle" /\ alive[sc]
    /\ IF s = 0 \/ s \in Range(sources_[sc])
       THEN /\ client' = Done(t)
            /\ ret' = RetArg("Scene.addSource", s)
       ELSE /\ client' = [client EXCEPT ![t] =
                    [IdleClient EXCEPT !.op = "addSource", !.pc = "push",
                                       !.sc = sc, !.s = s]]
            /\ UNCHANGED ret
    /\ UNCHANGED <<engineVars, thread, caller, sceneVars, sourceVars, ghostVars>>

\* SceneImpl::addSource: sources_.push_back(source)
addSource_push(t) ==
    /\ caller = "idle" /\ client[t].pc = "push"
    /\ sources_' = [sources_ EXCEPT ![client[t].sc] = Append(@, client[t].s)]
    /\ client' = Invalidate(t, client[t].sc)
    /\ ret' = RetArg("Scene.addSource", client[t].s)
    /\ UNCHANGED <<engineVars, thread, caller, alive, name_, initialized_, held,
                   sourceVars, ghostVars>>

\* a removeSource that unlinks a found source without stopping it
removeSource_call_noStop(t, sc, s) ==
    /\ caller = "idle" /\ client[t].pc = "idle" /\ alive[sc]
    /\ IF s = 0 \/ s \notin Range(sources_[sc])
       THEN /\ client' = Done(t)
            /\ ret' = RetArg("Scene.removeSource", s)
       ELSE /\ client' = [client EXCEPT ![t] =
                    [IdleClient EXCEPT !.op = "removeSource", !.pc = "erase",
                                       !.sc = sc, !.s = s,
                                       !.i = IndexOf(sources_[sc], s)]]
            /\ UNCHANGED ret
    /\ UNCHANGED active_
    /\ UNCHANGED <<engineVars, thread, caller, sceneVars, ghostVars>>

\* a removeSource that returns without looking for the source
removeSource_call_stub(t, sc, s) ==
    /\ caller = "idle" /\ client[t].pc = "idle" /\ alive[sc]
    /\ client' = Done(t)
    /\ ret' = RetArg("Scene.removeSource", s)
    /\ UNCHANGED <<engineVars, thread, caller, sceneVars, sourceVars, ghostVars>>

\* SceneImpl::removeSource: null check, std::find, and the stop of a found source
removeSource_call(t, sc, s) ==
    /\ caller = "idle" /\ client[t].pc = "idle" /\ alive[sc]
    /\ IF s = 0 \/ s \notin Range(sources_[sc])
       THEN /\ client' = Done(t)
            /\ ret' = RetArg("Scene.removeSource", s)
            /\ UNCHANGED active_
       ELSE /\ active_' = [active_ EXCEPT ![s] = FALSE]
            /\ client' = [client EXCEPT ![t] =
                    [IdleClient EXCEPT !.op = "removeSource", !.pc = "erase",
                                       !.sc = sc, !.s = s,
                                       !.i = IndexOf(sources_[sc], s)]]
            /\ UNCHANGED ret
    /\ UNCHANGED <<engineVars, thread, caller, sceneVars, ghostVars>>

\* the vector after a removal that moves the last element into the hole
SwapRemoveAt(seq, i) ==
    IF i = Len(seq) THEN SubSeq(seq, 1, i - 1)
    ELSE SubSeq([seq EXCEPT ![i] = seq[Len(seq)]], 1, Len(seq) - 1)

\* a removeSource that unlinks by swap-and-pop instead of erase
removeSource_erase_swap(t) ==
    /\ caller = "idle" /\ client[t].pc = "erase"
    /\ LET c == client[t] IN
          /\ c.i <= Len(sources_[c.sc])
          /\ sources_' = [sources_ EXCEPT ![c.sc] = SwapRemoveAt(@, c.i)]
          /\ client' = Invalidate(t, c.sc)
          /\ ret' = RetArg("Scene.removeSource", c.s)
          /\ UNCHANGED caller
    /\ UNCHANGED <<engineVars, thread, alive, name_, initialized_, held,
                   sourceVars, ghostVars>>

\* SceneImpl::removeSource: sources_.erase(it)
removeSource_erase(t) ==
    /\ caller = "idle" /\ client[t].pc = "erase"
    /\ LET c == client[t] IN
       \/ \* the element under the iterator goes
          /\ c.i <= Len(sources_[c.sc])
          /\ sources_' = [sources_ EXCEPT ![c.sc] = RemoveAt(@, c.i)]
          /\ client' = Invalidate(t, c.sc)
          /\ ret' = RetArg("Scene.removeSource", c.s)
          /\ UNCHANGED caller
       \/ \* erase through an invalid iterator: nothing of the vector changes
          /\ c.stale
          /\ client' = Done(t)
          /\ ret' = RetArg("Scene.removeSource", c.s)
          /\ UNCHANGED <<caller, sources_>>
       \/ \* erase through an invalid iterator: the process dies
          /\ c.stale
          /\ caller' = "terminated"
          /\ UNCHANGED <<client, ret, sources_>>
    /\ UNCHANGED <<engineVars, thread, alive, name_, initialized_, held,
                   sourceVars, ghostVars>>

\* a render that resets the out-frame before its guard
render_call_resetsFrame(t, sc, kind) ==
    /\ caller = "idle" /\ client[t].pc = "idle" /\ alive[sc]
    /\ IF ~initialized_[sc] \/ sources_[sc] = <<>>
       THEN /\ client' = Done(t)
            /\ ret' = [Ret("Scene.render", FALSE) EXCEPT !.frame.kind = kind]
       ELSE /\ client' = [client EXCEPT ![t] =
                    [IdleClient EXCEPT !.op = "render", !.pc = "scan", !.sc = sc,
                                       !.kind = kind, !.i = 1]]
            /\ UNCHANGED ret
    /\ UNCHANGED <<engineVars, thread, caller, sceneVars, sourceVars, ghostVars>>

\* a render whose guard does not read initialized_
render_call_noInitCheck(t, sc, kind) ==
    /\ caller = "idle" /\ client[t].pc = "idle" /\ alive[sc]
    /\ IF sources_[sc] = <<>>
       THEN /\ client' = Done(t)
            /\ ret' = Ret("Scene.render", FALSE)
       ELSE /\ client' = [client EXCEPT ![t] =
                    [IdleClient EXCEPT !.op = "render", !.pc = "scan", !.sc = sc,
                                       !.kind = kind, !.i = 1]]
            /\ UNCHANGED ret
    /\ UNCHANGED <<engineVars, thread, caller, sceneVars, sourceVars, ghostVars>>

\* SceneImpl::render(VideoFrame&) / render(AudioFrame&): the guard
render_call(t, sc, kind) ==
    /\ caller = "idle" /\ client[t].pc = "idle" /\ alive[sc]
    /\ IF ~initialized_[sc] \/ sources_[sc] = <<>>
       THEN /\ client' = Done(t)
            /\ ret' = Ret("Scene.render", FALSE)
       ELSE /\ client' = [client EXCEPT ![t] =
                    [IdleClient EXCEPT !.op = "render", !.pc = "scan", !.sc = sc,
                                       !.kind = kind, !.i = 1]]
            /\ UNCHANGED ret
    /\ UNCHANGED <<engineVars, thread, caller, sceneVars, sourceVars, ghostVars>>

\* client t of render goes on to source->getVideoFrame / getAudioFrame of src
ToGet(t, src) ==
    [client EXCEPT ![t] =
        [IdleClient EXCEPT !.op = "render", !.pc = "get", !.sc = client[t].sc,
                           !.kind = client[t].kind, !.s = src]]

\* a render loop that queries the first source without reading isActive()
render_scan_noActiveTest(t) ==
    /\ caller = "idle" /\ client[t].op = "render" /\ client[t].pc = "scan"
    /\ LET c == client[t] IN
       \/ /\ ~c.stale /\ c.i > Len(sources_[c.sc])
          /\ client' = Done(t)
          /\ ret' = Ret("Scene.render", FALSE)
          /\ UNCHANGED caller
       \/ /\ ~c.stale /\ c.i <= Len(sources_[c.sc])
          /\ LET src == sources_[c.sc][c.i] IN
                IF src # 0
                THEN client' = ToGet(t, src)
                ELSE client' = [client EXCEPT ![t].i = c.i + 1]
          /\ UNCHANGED <<caller, ret>>
       \/ /\ c.stale
          /\ \E src \in SourceIds : client' = ToGet(t, src)
          /\ UNCHANGED <<caller, ret>>
       \/ /\ c.stale
          /\ client' = Done(t)
          /\ ret' = Ret("Scene.render", FALSE)
          /\ UNCHANGED caller
       \/ /\ c.stale
          /\ caller' = "terminated"
          /\ UNCHANGED <<client, ret>>
    /\ UNCHANGED <<engineVars, thread, sceneVars, sourceVars, ghostVars>>

\* SceneImpl::render: one iteration of for (auto& source : sources_); with
\* invalid iterators the loop reads any pointers, ends anywhere, or faults
render_scan(t) ==
    /\ caller = "idle" /\ client[t].op = "render" /\ client[t].pc = "scan"
    /\ LET c == client[t] IN
       \/ /\ ~c.stale /\ c.i > Len(sources_[c.sc])
          /\ client' = Done(t)
          /\ ret' = Ret("Scene.render", FALSE)
          /\ UNCHANGED caller
       \/ /\ ~c.stale /\ c.i <= Len(sources_[c.sc])
          /\ LET src == sources_[c.sc][c.i] IN
                IF src # 0 /\ isActive(src)
                THEN client' = ToGet(t, src)
                ELSE client' = [client EXCEPT ![t].i = c.i + 1]
          /\ UNCHANGED <<caller, ret>>
       \/ /\ c.stale
          /\ \E src \in SourceIds : isActive(src) /\ client' = ToGet(t, src)
          /\ UNCHANGED <<caller, ret>>
       \/ /\ c.stale
          /\ client' = Done(t)
          /\ ret' = Ret("Scene.render", FALSE)
          /\ UNCHANGED caller
       \/ /\ c.stale
          /\ caller' = "terminated"
          /\ UNCHANGED <<client, ret>>
    /\ UNCHANGED <<engineVars, thread, sceneVars, sourceVars, ghostVars>>

\* BaseSource::getVideoFrame / getAudioFrame: if (!active_) return false
getFrame_check(t) ==
    /\ caller = "idle" /\ client[t].pc = "get"
    /\ IF ~active_[client[t].s]
       THEN /\ client' = Done(t)
            /\ ret' = Ret("Scene.render", FALSE)
       ELSE /\ client' = [client EXCEPT ![t].pc = "fill"]
            /\ UNCHANGED ret
    /\ UNCHANGED <<engineVars, thread, caller, sceneVars, sourceVars, ghostVars>>

\* BaseSource::getVideoFrame / getAudioFrame: the frame is written, return true
getFrame_fill(t) ==
    /\ caller = "idle" /\ client[t].pc = "fill"
    /\ client' = Done(t)
    /\ ret' = [Ret("Scene.render", TRUE) EXCEPT
                    !.frame = FilledFrame(client[t].kind, client[t].s)]
    /\ UNCHANGED <<engineVars, thread, caller, sceneVars, sourceVars, ghostVars>>

\* SceneImpl::shutdown: the guard; "noop" is the return of line 37, taken when
\* the Scene is not initialized
sceneShutdown_call(t, sc) ==
    /\ caller = "idle" /\ client[t].pc = "idle" /\ alive[sc]
    /\ IF ~initialized_[sc]
       THEN /\ client' = Done(t)
            /\ ret' = [Ret("Scene.shutdown", "noop") EXCEPT !.arg = sc]
       ELSE /\ client' = [client EXCEPT ![t] =
                    [IdleClient EXCEPT !.op = "shutdown", !.pc = "scan", !.sc = sc,
                                       !.i = 1]]
            /\ UNCHANGED ret
    /\ UNCHANGED <<engineVars, thread, caller, sceneVars, sourceVars, ghostVars>>

\* SceneImpl::shutdown: one iteration of the stop loop, then initialized_ = false;
\* with invalid iterators the loop reads any pointers, ends anywhere, or faults
sceneShutdown_scan(t) ==
    /\ caller = "idle" /\ client[t].op = "shutdown" /\ client[t].pc = "scan"
    /\ LET c == client[t] IN
       \/ /\ ~c.stale /\ c.i > Len(sources_[c.sc])
          /\ initialized_' = [initialized_ EXCEPT ![c.sc] = FALSE]
          /\ client' = Done(t)
          /\ ret' = RetArg("Scene.shutdown", c.sc)
          /\ UNCHANGED <<caller, active_>>
       \/ /\ ~c.stale /\ c.i <= Len(sources_[c.sc])
          /\ LET src == sources_[c.sc][c.i] IN
                IF src # 0 /\ isActive(src)
                THEN active_' = [active_ EXCEPT ![src] = FALSE]
                ELSE UNCHANGED active_
          /\ client' = [client EXCEPT ![t].i = c.i + 1]
          /\ UNCHANGED <<caller, ret, initialized_>>
       \/ /\ c.stale
          /\ \E src \in SourceIds :
                isActive(src) /\ active_' = [active_ EXCEPT ![src] = FALSE]
          /\ UNCHANGED <<caller, client, ret, initialized_>>
       \/ /\ c.stale
          /\ initialized_' = [initialized_ EXCEPT ![c.sc] = FALSE]
          /\ client' = Done(t)
          /\ ret' = RetArg("Scene.shutdown", c.sc)
          /\ UNCHANGED <<caller, active_>>
       \/ /\ c.stale
          /\ caller' = "terminated"
          /\ UNCHANGED <<client, ret, initialized_, active_>>
    /\ UNCHANGED <<engineVars, thread, alive, name_, sources_, held, ghostVars>>

\* ---- shared_ptr<Scene> lifetime --------------------------------------------
\* the Engine's table holds a reference to the object
Registered(sc) == \E n \in Names : scenes_[n] = sc

\* ~SceneImpl on every object of D: shutdown(), then the object is gone
destroyActive(D) ==
    [s \in SourceIds |->
        IF \E sc \in D : initialized_[sc] /\ s \in Range(sources_[sc])
        THEN FALSE ELSE active_[s]]

Destroy(D) ==
    /\ active_' = destroyActive(D)
    /\ alive' = [sc \in SceneIds |-> alive[sc] /\ sc \notin D]
    /\ name_' = [sc \in SceneIds |-> IF sc \in D THEN "" ELSE name_[sc]]
    /\ initialized_' = [sc \in SceneIds |-> initialized_[sc] /\ sc \notin D]
    /\ sources_' = [sc \in SceneIds |-> IF sc \in D THEN <<>> ELSE sources_[sc]]

\* the caller drops its ScenePtr
ReleaseScene(sc) ==
    /\ UNCHANGED clientVars
    /\ caller = "idle"
    /\ alive[sc] /\ held[sc]
    /\ held' = [held EXCEPT ![sc] = FALSE]
    /\ Destroy(IF Registered(sc) THEN {} ELSE {sc})
    /\ ret' = Ret("~ScenePtr", "void")
    /\ UNCHANGED <<engineVars, thread, caller, ghostVars>>

\* ---- Engine::Impl ---------------------------------------------------------
isStreaming == streaming_

\* the SceneImpl objects that exist
LiveScenes == {sc \in SceneIds : alive[sc]}

FreeScene == CHOOSE sc \in SceneIds :
                ~alive[sc] /\ \A o \in SceneIds : ~alive[o] => sc <= o

\* a createScene whose replaced Scene goes away without its shutdown
createScene_noShutdown(name) ==
    /\ UNCHANGED clientVars
    /\ caller = "idle"
    /\ LET new == FreeScene
           old == scenes_[name]
           D == IF old # 0 /\ ~held[old] THEN {old} ELSE {}
       IN /\ Cardinality(LiveScenes \ D) < MaxScenes
          /\ scenes_' = [scenes_ EXCEPT ![name] = new]
          /\ alive' = [sc \in SceneIds |-> sc = new \/ (alive[sc] /\ sc \notin D)]
          /\ name_' = [sc \in SceneIds |->
                          IF sc = new THEN name ELSE IF sc \in D THEN "" ELSE name_[sc]]
          /\ initialized_' = [sc \in SceneIds |->
                          sc # new /\ sc \notin D /\ initialized_[sc]]
          /\ sources_' = [sc \in SceneIds |->
                          IF sc = new \/ sc \in D THEN <<>> ELSE sources_[sc]]
          /\ held' = [held EXCEPT ![new] = TRUE]
          /\ ret' = Ret("createScene", new)
    /\ UNCHANGED <<streaming_, streaming_thread_, thread, caller, sourceVars, ghostVars>>

\* a createScene that registers with insert: a registered name keeps its Scene
createScene_keepOld(name) ==
    /\ UNCHANGED clientVars
    /\ caller = "idle"
    /\ Cardinality(LiveScenes) < MaxScenes
    /\ LET new == FreeScene
       IN /\ scenes_' = IF scenes_[name] = 0 THEN [scenes_ EXCEPT ![name] = new]
                        ELSE scenes_
          /\ alive' = [alive EXCEPT ![new] = TRUE]
          /\ name_' = [name_ EXCEPT ![new] = name]
          /\ initialized_' = [initialized_ EXCEPT ![new] = FALSE]
          /\ sources_' = [sources_ EXCEPT ![new] = <<>>]
          /\ held' = [held EXCEPT ![new] = TRUE]
          /\ ret' = Ret("createScene", new)
    /\ UNCHANGED <<streaming_, streaming_thread_, thread, caller, sourceVars, ghostVars>>

\* a createScene that shuts the replaced Scene down, held or not
createScene_shutdownOld(name) ==
    /\ UNCHANGED clientVars
    /\ caller = "idle"
    /\ LET new == FreeScene
           old == scenes_[name]
           D == IF old # 0 /\ ~held[old] THEN {old} ELSE {}
           S == IF old # 0 THEN {old} ELSE {}
       IN /\ Cardinality(LiveScenes \ D) < MaxScenes
          /\ scenes_' = [scenes_ EXCEPT ![name] = new]
          /\ active_' = destroyActive(S)
          /\ alive' = [sc \in SceneIds |-> sc = new \/ (alive[sc] /\ sc \notin D)]
          /\ name_' = [sc \in SceneIds |->
                          IF sc = new THEN name ELSE IF sc \in D THEN "" ELSE name_[sc]]
          /\ initialized_' = [sc \in SceneIds |->
                          sc # new /\ sc \notin S /\ initialized_[sc]]
          /\ sources_' = [sc \in SceneIds |->
                          IF sc = new \/ sc \in D THEN <<>> ELSE sources_[sc]]
          /\ held' = [held EXCEPT ![new] = TRUE]
          /\ ret' = Ret("createScene", new)
    /\ UNCHANGED <<streaming_, streaming_thread_, thread, caller, ghostVars>>

\* Engine::Impl::createScene
createScene(name) ==
    /\ UNCHANGED clientVars
    /\ caller = "idle"
    /\ LET new == FreeScene
           old == scenes_[name]
           D == IF old # 0 /\ ~held[old] THEN {old} ELSE {}
       IN /\ Cardinality(LiveScenes \ D) < MaxScenes
          /\ scenes_' = [scenes_ EXCEPT ![name] = new]
          /\ active_' = destroyActive(D)
          /\ alive' = [sc \in SceneIds |-> sc = new \/ (alive[sc] /\ sc \notin D)]
          /\ name_' = [sc \in SceneIds |->
                          IF sc = new THEN name ELSE IF sc \in D THEN "" ELSE name_[sc]]
          /\ initialized_' = [sc \in SceneIds |->
                          sc # new /\ sc \notin D /\ initialized_[sc]]
          /\ sources_' = [sc \in SceneIds |->
                          IF sc = new \/ sc \in D THEN <<>> ELSE sources_[sc]]
          /\ held' = [held EXCEPT ![new] = TRUE]
          /\ ret' = Ret("createScene", new)
    /\ UNCHANGED <<streaming_, streaming_thread_, thread, caller, ghostVars>>

\* the factory methods of Engine::Impl
Factories == {"createSource", "createEncoder", "createOutput", "createFilter"}

\* a factory that throws on an id it does not know
createComponent_throws(op, id) ==
    /\ UNCHANGED clientVars
    /\ caller = "idle"
    /\ caller' = "terminated"
    /\ UNCHANGED <<engineVars, thread, ret, sceneVars, sourceVars, ghostVars>>

\* Engine::Impl::createSource / createEncoder / createOutput / createFilter:
\* whatever the id, a warning is logged and nullptr (0) is returned
createComponent(op, id) ==
    /\ UNCHANGED clientVars
    /\ caller = "idle"
    /\ ret' = Ret(op, 0)
    /\ UNCHANGED <<engineVars, thread, caller, sceneVars, sourceVars, ghostVars>>

FreeThread == CHOOSE t \in ThreadIds :
                thread[t] = "none" /\ \A o \in ThreadIds : thread[o] = "none" => t <= o

\* a startStreaming() without the already-streaming check
startStreaming_noCheck ==
    /\ UNCHANGED clientVars
    /\ caller = "idle"
    /\ \E t \in ThreadIds : thread[t] = "none"
    /\ streaming_' = TRUE
    /\ thread' = [thread EXCEPT ![FreeThread] = "check"]
    /\ ticksAfterStop' = 0
    /\ IF streaming_thread_ # 0
       THEN /\ caller' = "terminated"
            /\ UNCHANGED <<streaming_thread_, ret>>
       ELSE /\ streaming_thread_' = FreeThread
            /\ ret' = Ret("startStreaming", TRUE)
            /\ UNCHANGED caller
    /\ UNCHANGED <<scenes_, tickLog, sceneVars, sourceVars>>

\* a startStreaming() that returns true without launching the thread
startStreaming_noThread ==
    /\ UNCHANGED clientVars
    /\ caller = "idle"
    /\ IF streaming_
       THEN /\ ret' = Ret("startStreaming", FALSE)
            /\ UNCHANGED <<engineVars, thread, caller, ghostVars>>
       ELSE /\ streaming_' = TRUE
            /\ ret' = Ret("startStreaming", TRUE)
            /\ UNCHANGED <<scenes_, streaming_thread_, thread, caller, ghostVars>>
    /\ UNCHANGED <<sceneVars, sourceVars>>

\* Engine::Impl::startStreaming
startStreaming ==
    /\ UNCHANGED clientVars
    /\ caller = "idle"
    /\ IF streaming_
       THEN /\ ret' = Ret("startStreaming", FALSE)
            /\ UNCHANGED <<engineVars, thread, caller, ghostVars>>
       ELSE /\ \E t \in ThreadIds : thread[t] = "none"
            /\ streaming_' = TRUE
            /\ thread' = [thread EXCEPT ![FreeThread] = "check"]
            /\ ticksAfterStop' = 0
            /\ IF streaming_thread_ # 0
               THEN \* move-assignment to a joinable std::thread: std::terminate
                    /\ caller' = "terminated"
                    /\ UNCHANGED <<streaming_thread_, ret>>
               ELSE /\ streaming_thread_' = FreeThread
                    /\ ret' = Ret("startStreaming", TRUE)
                    /\ UNCHANGED caller
            /\ UNCHANGED <<scenes_, tickLog>>
    /\ UNCHANGED <<sceneVars, sourceVars>>

\* what the caller does once stopStreaming() has returned inside `op`;
\* `path` is the way stopStreaming() returned: "noop" (line 361), "joined"
\* (after the join) or "unjoined" (the handle was not joinable)
Return(op, path) ==
    IF op = "~Impl"
    THEN \* members are destroyed: the table drops its references
         /\ caller' = "destroyed"
         /\ ret' = Ret(op, path)
         /\ scenes_' = [n \in Names |-> 0]
         /\ Destroy({sc \in SceneIds : alive[sc] /\ ~held[sc]})
         /\ UNCHANGED held
    ELSE /\ caller' = "idle"
         /\ ret' = Ret(op, path)
         /\ UNCHANGED <<scenes_, sceneVars, sourceVars>>

\* a stopStreaming() that clears the flag and returns without the join
stopStreamingIn_noJoin(op) ==
    /\ UNCHANGED clientVars
    /\ caller = "idle"
    /\ IF ~streaming_
       THEN /\ Return(op, "noop")
            /\ UNCHANGED <<streaming_, streaming_thread_, thread, ghostVars>>
       ELSE /\ streaming_' = FALSE
            /\ Return(op, "unjoined")
            /\ UNCHANGED <<streaming_thread_, thread, ghostVars>>

\* a stopStreaming() that joins whatever the flag and the handle say
stopStreamingIn_alwaysJoin(op) ==
    /\ UNCHANGED clientVars
    /\ caller = "idle"
    /\ streaming_' = FALSE
    /\ caller' = op
    /\ UNCHANGED <<scenes_, streaming_thread_, thread, ret, sceneVars, sourceVars,
                   ghostVars>>

\* Engine::Impl::stopStreaming up to the join, called from `op`
stopStreamingIn(op) ==
    /\ UNCHANGED clientVars
    /\ caller = "idle"
    /\ IF ~streaming_
       THEN /\ Return(op, "noop")
            /\ UNCHANGED <<streaming_, streaming_thread_, thread, ghostVars>>
       ELSE /\ streaming_' = FALSE
            /\ IF streaming_thread_ # 0
               THEN /\ caller' = op
                    /\ UNCHANGED <<scenes_, ret, sceneVars, sourceVars>>
               ELSE Return(op, "unjoined")
            /\ UNCHANGED <<streaming_thread_, thread, ghostVars>>

\* a join that does not wait for the thread to end (the thread is let go)
join_noWait ==
    /\ UNCHANGED clientVars
    /\ caller \in {"stopStreaming", "shutdown", "~Impl"}
    /\ streaming_thread_ # 0
    /\ streaming_thread_' = 0
    /\ Return(caller, "joined")
    /\ UNCHANGED <<streaming_, thread, ghostVars>>

\* streaming_thread_.join() completes and the call returns
join ==
    /\ UNCHANGED clientVars
    /\ caller \in {"stopStreaming", "shutdown", "~Impl"}
    /\ streaming_thread_ # 0
    /\ thread[streaming_thread_] = "done"
    /\ thread' = [thread EXCEPT ![streaming_thread_] = "none"]
    /\ streaming_thread_' = 0
    /\ Return(caller, "joined")
    /\ UNCHANGED <<streaming_, ghostVars>>

\* Engine::Impl::stopStreaming
stopStreaming == stopStreamingIn("stopStreaming")

\* a shutdown() that does not stop streaming
shutdown_noStop ==
    /\ UNCHANGED clientVars
    /\ caller = "idle"
    /\ Return("shutdown", "noop")
    /\ UNCHANGED <<streaming_, streaming_thread_, thread, ghostVars>>

\* Engine::Impl::shutdown
shutdown == stopStreamingIn("shutdown")

\* Engine::Impl::~Impl
DestroyImpl == stopStreamingIn("~Impl")

\* a loop whose condition does not read the flag
LoopCheck_ignoreFlag(t) ==
    /\ UNCHANGED clientVars
    /\ caller # "terminated"
    /\ thread[t] = "check"
    /\ thread' = [thread EXCEPT ![t] = "tick"]
    /\ tickLog' = <<>>
    /\ UNCHANGED <<engineVars, caller, ret, sceneVars, sourceVars, ticksAfterStop>>

\* Engine::Impl::streamingLoop: the while condition
LoopCheck(t) ==
    /\ UNCHANGED clientVars
    /\ caller # "terminated"
    /\ thread[t] = "check"
    /\ thread' = [thread EXCEPT ![t] = IF streaming_ THEN "tick" ELSE "done"]
    /\ tickLog' = IF streaming_ THEN <<>> ELSE tickLog
    /\ UNCHANGED <<engineVars, caller, ret, sceneVars, sourceVars, ticksAfterStop>>

\* a loop body that gives up when the tick has rendered no frame
LoopTick_breakOnFailure(t) ==
    /\ UNCHANGED clientVars
    /\ caller # "terminated"
    /\ thread[t] = "tick"
    /\ thread' = [thread EXCEPT ![t] = IF tickLog = <<>> THEN "done" ELSE "check"]
    /\ ticksAfterStop' = IF ~streaming_ /\ ticksAfterStop < TickCap
                         THEN ticksAfterStop + 1 ELSE ticksAfterStop
    /\ UNCHANGED <<engineVars, caller, ret, sceneVars, sourceVars, tickLog>>

\* a loop body that runs a second tick before the flag is read again
LoopTick_twoTicks(t) ==
    /\ UNCHANGED clientVars
    /\ caller # "terminated"
    /\ thread[t] = "tick"
    /\ thread' = [thread EXCEPT ![t] = IF ticksAfterStop = 0 THEN "tick" ELSE "check"]
    /\ ticksAfterStop' = IF ~streaming_ /\ ticksAfterStop < TickCap
                         THEN ticksAfterStop + 1 ELSE ticksAfterStop
    /\ UNCHANGED <<engineVars, caller, ret, sceneVars, sourceVars, tickLog>>

\* Engine::Impl::streamingLoop: the loop body (no render call, the 16 ms sleep)
LoopTick(t) ==
    /\ UNCHANGED clientVars
    /\ caller # "terminated"
    /\ thread[t] = "tick"
    /\ thread' = [thread EXCEPT ![t] = "check"]
    /\ ticksAfterStop' = IF ~streaming_ /\ ticksAfterStop < TickCap
                         THEN ticksAfterStop + 1 ELSE ticksAfterStop
    /\ UNCHANGED <<engineVars, caller, ret, sceneVars, sourceVars, tickLog>>

Next ==
    \/ \E n \in Names : createScene(n)
    \/ \E sc \in SceneIds : SceneInitialize(sc)
    \/ \E sc \in SceneIds : ReleaseScene(sc)
    \/ \E op \in Factories, id \in Ids : createComponent(op, id)
    \/ startStreaming
    \/ stopStreaming
    \/ shutdown
    \/ DestroyImpl
    \/ join
    \/ \E t \in ThreadIds : LoopCheck(t)
    \/ \E t \in ThreadIds : LoopTick(t)

Spec == Init /\ [][Next]_vars

\* the scheduler runs the background thread, and a join on an ended thread returns
FairSpec ==
    /\ Spec
    /\ \A t \in ThreadIds : WF_vars(LoopCheck(t)) /\ WF_vars(LoopTick(t))
    /\ WF_vars(join)

\* ---- a SceneImpl used from several threads -----------------------------------
\* one SceneImpl("A") constructed, the sources constructed, no Engine call made
InitScene ==
    /\ scenes_ = [n \in Names |-> 0]
    /\ streaming_ = FALSE
    /\ streaming_thread_ = 0
    /\ thread = [t \in ThreadIds |-> "none"]
    /\ caller = "idle"
    /\ ret = Ret("SceneImpl", "void")
    /\ alive = [sc \in SceneIds |-> sc = 1]
    /\ name_ = [sc \in SceneIds |-> IF sc = 1 THEN "A" ELSE ""]
    /\ initialized_ = [sc \in SceneIds |-> FALSE]
    /\ sources_ = [sc \in SceneIds |-> <<>>]
    /\ held = [sc \in SceneIds |-> sc = 1]
    /\ active_ = [s \in SourceIds |-> FALSE]
    /\ client = [t \in ClientIds |-> IdleClient]
    /\ ticksAfterStop = 0
    /\ tickLog = <<>>

NextScene ==
    \/ \E sc \in SceneIds : SceneInitialize(sc)
    \/ \E s \in RaceSourceIds : start(s)
    \/ \E s \in RaceSourceIds : stop(s)
    \/ \E t \in ClientIds, sc \in SceneIds, s \in RaceSourceIds \cup {0} : addSource_call(t, sc, s)
    \/ \E t \in ClientIds : addSource_push(t)
    \/ \E t \in ClientIds, sc \in SceneIds, s \in RaceSourceIds \cup {0} : removeSource_call(t, sc, s)
    \/ \E t \in ClientIds : removeSource_erase(t)
    \/ \E t \in ClientIds, sc \in SceneIds, k \in {"video", "audio"} : render_call(t, sc, k)
    \/ \E t \in ClientIds : render_scan(t)
    \/ \E t \in ClientIds : getFrame_check(t)
    \/ \E t \in ClientIds : getFrame_fill(t)
    \/ \E t \in ClientIds, sc \in SceneIds : sceneShutdown_call(t, sc)
    \/ \E t \in ClientIds : sceneShutdown_scan(t)

SpecScene == InitScene /\ [][NextScene]_vars

\* ---- a SceneImpl used from one thread ----------------------------------------
\* the thread that makes every call
MainThread == CHOOSE t \in ClientIds : \A u \in ClientIds : t <= u

\* no SceneImpl call is in progress: the thread is free to make the next call
Quiet == \A t \in ClientIds : client[t].pc = "idle"

NextSeq ==
    \/ \E sc \in SceneIds : Quiet /\ SceneInitialize(sc)
    \/ \E sc \in SceneIds : Quiet /\ ReleaseScene(sc)
    \/ \E s \in SourceIds : Quiet /\ start(s)
    \/ \E s \in SourceIds : Quiet /\ stop(s)
    \/ \E s \in SourceIds : Quiet /\ sourceInitialize(s)
    \/ \E s \in SourceIds : Quiet /\ sourceShutdown(s)
    \/ \E s \in SourceIds, k \in {"video", "audio"} : Quiet /\ getFrame(s, k)
    \/ \E sc \in SceneIds, s \in SourceIds \cup {0} : addSource_call(MainThread, sc, s)
    \/ addSource_push(MainThread)
    \/ \E sc \in SceneIds, s \in SourceIds \cup {0} : removeSource_call(MainThread, sc, s)
    \/ removeSource_erase(MainThread)
    \/ \E sc \in SceneIds, k \in {"video", "audio"} : render_call(MainThread, sc, k)
    \/ render_scan(MainThread)
    \/ getFrame_check(MainThread)
    \/ getFrame_fill(MainThread)
    \/ \E sc \in SceneIds : sceneShutdown_call(MainThread, sc)
    \/ sceneShutdown_scan(MainThread)

SpecSeq == InitScene /\ [][NextSeq]_vars

\* ---- the Engine's Scenes used from one thread ---------------------------------
\* Scenes are created, initialized, given a source they share, rendered and released
SharedSource == CHOOSE s \in SourceIds : \A u \in SourceIds : s <= u

NextReg ==
    \/ \E n \in Names : Quiet /\ createScene(n)
    \/ \E sc \in SceneIds : Quiet /\ ReleaseScene(sc)
    \/ \E sc \in SceneIds : Quiet /\ SceneInitialize(sc)
    \/ Quiet /\ start(SharedSource)
    \/ \E sc \in SceneIds : held[sc] /\ addSource_call(MainThread, sc, SharedSource)
    \/ addSource_push(MainThread)
    \/ \E sc \in SceneIds : held[sc] /\ render_call(MainThread, sc, "video")
    \/ render_scan(MainThread)
    \/ getFrame_check(MainThread)
    \/ getFrame_fill(MainThread)

SpecReg == Init /\ [][NextReg]_vars

\* ---- properties -------------------------------------------------------------
Threads == {t \in ThreadIds : thread[t] # "none"}            \* threads that exist
Running == {t \in ThreadIds : thread[t] \in {"check", "tick"}} \* in the loop

\* C1: a stopStreaming() called while streaming returns only once the background
\* thread has ended and been joined, and isStreaming() is false when it returns.
C1_StopReturnsAfterThreadEnded ==
    (ret.op = "stopStreaming" /\ ret.val # "noop")
        => (~isStreaming /\ Threads = {} /\ streaming_thread_ = 0)

C1_Witness ==
    /\ ret.op = "stopStreaming" /\ ret.val = "joined"
    /\ caller = "idle" /\ ~isStreaming /\ Threads = {}

\* C2: a startStreaming() called while streaming returns false and changes
\* nothing: the flag stays true, no thread is launched, the loop is where it was.
C2_StartWhileStreamingNoChange ==
    [][(streaming_ /\ startStreaming)
        => /\ ret'.op = "startStreaming" /\ ret'.val = FALSE
           /\ streaming_'
           /\ UNCHANGED <<engineVars, thread, caller, sceneVars, sourceVars, ghostVars>>
      ]_vars

C2_Witness ==
    /\ ret.op = "startStreaming" /\ ret.val = FALSE
    /\ isStreaming /\ Cardinality(Running) = 1

\* C3: a startStreaming() called while idle returns true, and when it returns
\* isStreaming() is true and the background thread has been launched.
C3_StartWhileIdleLaunches ==
    [][(~streaming_ /\ startStreaming)
        => /\ ret'.op = "startStreaming" /\ ret'.val = TRUE
           /\ caller' = "idle"
           /\ streaming_'
           /\ streaming_thread_' # 0
           /\ thread[streaming_thread_'] = "none"
           /\ thread'[streaming_thread_'] = "check"
      ]_vars

C3_Witness ==
    /\ ret.op = "startStreaming" /\ ret.val = TRUE
    /\ caller = "idle" /\ isStreaming /\ streaming_thread_ # 0

\* C4: with the background thread scheduled fairly, a stopStreaming() called
\* while streaming (the caller blocked in the join) eventually returns.
C4_StopEventuallyReturns ==
    (caller = "stopStreaming") ~> (caller = "idle" /\ ret.op = "stopStreaming")

C4_Witness ==
    /\ caller = "stopStreaming"
    /\ streaming_thread_ # 0 /\ thread[streaming_thread_] = "tick"

\* C5: once the stop signal is set the loop completes at most one further tick.
C5_AtMostOneTickAfterStop == ticksAfterStop <= 1

C5_Witness ==
    /\ ticksAfterStop = 1
    /\ ~streaming_ /\ streaming_thread_ # 0 /\ thread[streaming_thread_] = "done"

\* C6: a stopStreaming() called while not streaming returns without blocking
\* and changes nothing: flag, scene table, thread handle, threads, scenes.
C6_StopWhileIdleNoop ==
    [][(~streaming_ /\ stopStreaming)
        => /\ caller' = "idle"
           /\ ret'.op = "stopStreaming"
           /\ ~streaming_'
           /\ UNCHANGED <<engineVars, thread, sceneVars, sourceVars, ghostVars>>
      ]_vars

C6_Witness ==
    /\ ret.op = "stopStreaming" /\ ret.val = "noop"
    /\ caller = "idle" /\ ~isStreaming
    /\ \E n \in Names : scenes_[n] # 0

\* C7: within shutdown() (and ~Impl), any step that returns to the caller or
\* releases engine-owned state (a table entry, a Scene) leaves streaming off
\* and no background thread.
C7_ShutdownStopsStreamingFirst ==
    [][((shutdown \/ DestroyImpl \/ caller \in {"shutdown", "~Impl"})
         /\ (caller' \in {"idle", "destroyed"} \/ scenes_' # scenes_ \/ alive' # alive))
        => (~streaming_' /\ Threads' = {} /\ streaming_thread_' = 0)
      ]_vars

C7_Witness ==
    /\ ret.op = "shutdown" /\ ret.val = "joined"
    /\ caller = "idle" /\ ~isStreaming /\ Threads = {}

\* C8: at most one background thread exists, and exactly one runs the loop
\* while the Engine is Running (streaming_ set).
C8_OneStreamingThread ==
    /\ Cardinality(Threads) <= 1
    /\ streaming_ => (Cardinality(Running) = 1 /\ Running = {streaming_thread_})

C8_Witness ==
    /\ streaming_ /\ Threads = {streaming_thread_}
    /\ thread[streaming_thread_] = "tick"
    /\ ret.op = "createScene"

\* C9: every tick completed while Running has rendered each registered Scene,
\* video first and then audio.
VideoThenAudio(log, sc) ==
    \E i, j \in DOMAIN log :
        i < j /\ log[i] = <<sc, "video">> /\ log[j] = <<sc, "audio">>

C9_TickRendersEveryScene ==
    [][((\E t \in ThreadIds : LoopTick(t)) /\ streaming_)
        => \A n \in Names : scenes_[n] # 0 => VideoThenAudio(tickLog', scenes_[n])
      ]_vars

\* C10: addSource, removeSource, render and shutdown of one Scene exclude each
\* other: the collection is never changed by another thread while a render
\* iterates it (the loop of a render never runs on invalidated iterators).
C10_RenderNeverOverlapsMutation ==
    \A t \in ClientIds :
        (client[t].op = "render" /\ client[t].pc = "scan") => ~client[t].stale

\* C11: a render that runs while another thread removes source s never returns a
\* frame obtained from s once s has been stopped and unlinked from the Scene.
C11_RenderNeverReturnsRemovedSource ==
    [][\A t \in ClientIds :
          getFrame_fill(t)
              => ~(/\ client[t].s \notin Range(sources_[client[t].sc])
                   /\ ~active_[client[t].s])
      ]_vars

\* std::mutex mutex_ of Engine::Impl: the thread that holds it (no statement of
\* Engine.cpp locks or unlocks it)
mutex_ == "unlocked"

C13_NoFrameAfterStop ==
    [][\A t \in ClientIds : getFrame_fill(t) => active_[client[t].s]]_vars

\* C14: when Scene.shutdown() returns, whatever state the Scene was in at the
\* call (never initialized included), no source of the Scene is active; the same
\* holds when the Scene is destroyed.
C14_ShutdownLeavesNoActiveSource ==
    [][\A sc \in SceneIds :
          /\ (/\ \/ sceneShutdown_call(MainThread, sc)
                  \/ (sceneShutdown_scan(MainThread) /\ client[MainThread].sc = sc)
               /\ client'[MainThread].pc = "idle")
                 => \A s \in Range(sources_'[sc]) : ~active_'[s]
          /\ (ReleaseScene(sc) /\ ~alive'[sc])
                 => \A s \in Range(sources_[sc]) : ~active_'[s]
      ]_vars

\* C15: removeSource(s) of an absent or empty s changes nothing (s's active flag
\* included); of a present s it stops s and only then unlinks it: at the unlink s
\* is not active, and the unlink changes no active flag.
C15_RemoveStopsThenUnlinks ==
    [][/\ \A sc \in SceneIds, s \in SourceIds \cup {0} :
            removeSource_call(MainThread, sc, s)
                => IF s = 0 \/ s \notin Range(sources_[sc])
                   THEN /\ UNCHANGED <<sceneVars, sourceVars>>
                        /\ client'[MainThread].pc = "idle"
                   ELSE /\ active_' = [active_ EXCEPT ![s] = FALSE]
                        /\ UNCHANGED sceneVars
                        /\ client'[MainThread].pc = "erase"
       /\ removeSource_erase(MainThread)
            => LET c == client[MainThread] IN
                 /\ ~active_[c.s]
                 /\ UNCHANGED active_
                 /\ c.s \in Range(sources_[c.sc])
                 /\ c.s \notin Range(sources_'[c.sc])
                 /\ client'[MainThread].pc = "idle"
      ]_vars

C15_Witness ==
    /\ client[MainThread].op = "removeSource" /\ client[MainThread].pc = "erase"
    /\ ~active_[client[MainThread].s]
    /\ ret.op = "Source.start"
    /\ \E s \in Range(sources_[client[MainThread].sc]) : active_[s]

\* C16: a render (video or audio) called right after removeSource(s) has
\* returned never returns a frame produced by s.
C16_RenderAfterRemoveSkipsRemoved ==
    [][(getFrame_fill(MainThread) /\ ret.op = "Scene.removeSource")
        => (ret'.op = "Scene.render" /\ ret'.frame.src # ret.arg)
      ]_vars

C16_Witness ==
    /\ client[MainThread].op = "render" /\ client[MainThread].pc = "fill"
    /\ ret.op = "Scene.removeSource" /\ ret.arg # 0
    /\ ret.arg \notin Range(sources_[client[MainThread].sc])

\* C17: addSource(s) leaves the collection unchanged when s is empty or already
\* present, and otherwise appends s at the end; an addition never adds a
\* reference that is already there, so repeating it adds at most one entry.
C17_AddSourceAppendsOnce ==
    [][/\ \A sc \in SceneIds, s \in SourceIds \cup {0} :
            addSource_call(MainThread, sc, s)
                => IF s = 0 \/ s \in Range(sources_[sc])
                   THEN /\ UNCHANGED <<sceneVars, sourceVars>>
                        /\ client'[MainThread].pc = "idle"
                   ELSE /\ UNCHANGED <<sceneVars, sourceVars>>
                        /\ client'[MainThread].pc = "push"
                        /\ client'[MainThread].s = s
       /\ addSource_push(MainThread)
            => LET c == client[MainThread] IN
                 /\ c.s \notin Range(sources_[c.sc])
                 /\ sources_'[c.sc] = Append(sources_[c.sc], c.s)
                 /\ \A o \in SceneIds \ {c.sc} : sources_'[o] = sources_[o]
                 /\ client'[MainThread].pc = "idle"
      ]_vars

\* the last call that returned is a repeated addSource: its argument is in the
\* collection with a source added after it
C17_Witness ==
    /\ Quiet
    /\ ret.op = "Scene.addSource" /\ ret.arg # 0
    /\ \E sc \in SceneIds :
          /\ Len(sources_[sc]) >= 2
          /\ sources_[sc][1] = ret.arg

\* C18: a Scene's source collection never holds an empty reference, nor two
\* entries that refer to the same Source.
C18_NoNullNoDuplicate ==
    \A sc \in SceneIds :
        \A i \in DOMAIN sources_[sc] :
            /\ sources_[sc][i] # 0
            /\ \A j \in DOMAIN sources_[sc] : i # j => sources_[sc][i] # sources_[sc][j]

C18_Witness ==
    /\ Quiet
    /\ ret.op = "Scene.addSource" /\ ret.arg = 0
    /\ \E sc \in SceneIds : Len(sources_[sc]) >= 2

\* a comes before b in seq
Before(seq, a, b) ==
    \E i, j \in DOMAIN seq : i < j /\ seq[i] = a /\ seq[j] = b

\* C19: the collection keeps insertion order: no step changes the relative order
\* of two sources that stay, a source that comes in is put at the end, and
\* the frame a render returns is from the first active source in that order.
C19_InsertionOrderKept ==
    [][\A sc \in SceneIds :
          /\ sources_'[sc] # sources_[sc]
                => /\ \A a, b \in Range(sources_[sc]) \cap Range(sources_'[sc]) :
                        Before(sources_[sc], a, b) <=> Before(sources_'[sc], a, b)
                   /\ \A a \in Range(sources_'[sc]) \ Range(sources_[sc]) :
                        sources_'[sc][Len(sources_'[sc])] = a
          /\ (client[MainThread].sc = sc /\ getFrame_fill(MainThread))
                => /\ ret'.frame.src \in Range(sources_[sc])
                   /\ \A j \in 1..(IndexOf(sources_[sc], ret'.frame.src) - 1) :
                          ~active_[sources_[sc][j]]
      ]_vars

\* removeSource is about to unlink the first of three sources
C19_Witness ==
    /\ client[MainThread].op = "removeSource" /\ client[MainThread].pc = "erase"
    /\ client[MainThread].i = 1
    /\ Len(sources_[client[MainThread].sc]) = 3

\* C20: render (video or audio) returns false, with no frame, whenever the Scene
\* is not initialized or its collection is empty, whether or not a source is active.
C20_RenderFalseWhenNotReady ==
    [][\A sc \in SceneIds, k \in {"video", "audio"} :
          (render_call(MainThread, sc, k)
              /\ (~initialized_[sc] \/ sources_[sc] = <<>>))
            => /\ client'[MainThread].pc = "idle"
               /\ ret' = Ret("Scene.render", FALSE)
               /\ UNCHANGED <<sceneVars, sourceVars>>
      ]_vars

C20_Witness ==
    /\ Quiet
    /\ ret = Ret("Scene.render", FALSE)
    /\ \E sc \in SceneIds :
          /\ alive[sc] /\ ~initialized_[sc]
          /\ \E s \in Range(sources_[sc]) : active_[s]

\* the first active source of sc in insertion order (0: none)
FirstActive(sc) ==
    LET act == {i \in DOMAIN sources_[sc] : active_[sources_[sc][i]]}
    IN IF act = {} THEN 0
       ELSE sources_[sc][CHOOSE i \in act : \A j \in act : i <= j]

RenderReturns(sc, kind) ==
    /\ \/ render_call(MainThread, sc, kind)
       \/ /\ client[MainThread].op = "render"
          /\ client[MainThread].sc = sc /\ client[MainThread].kind = kind
    /\ client'[MainThread].pc = "idle"

\* C22 as stated: on a Scene, render(video) with zero sources returns false;
\* after addSource of one Source and start() on it render(video) returns true
\* with a 1920 x 1080 frame; after stop() on it render(video) returns false.
C22_ScenarioOnAnyScene ==
    [][\A sc \in SceneIds, s \in SourceIds :
          RenderReturns(sc, "video")
            => /\ sources_[sc] = <<>> => ret' = Ret("Scene.render", FALSE)
               /\ (sources_[sc] = <<s>> /\ active_[s] /\ ret = Ret("Source.start", "void"))
                    => /\ ret'.val = TRUE
                       /\ ret'.frame.width = 1920 /\ ret'.frame.height = 1080
               /\ (sources_[sc] = <<s>> /\ ~active_[s] /\ ret = Ret("Source.stop", "void"))
                    => ret' = Ret("Scene.render", FALSE)
      ]_vars

\* C22 amended: the same scenario on an initialized Scene.
C22_ScenarioOnInitializedScene ==
    [][\A sc \in SceneIds, s \in SourceIds :
          RenderReturns(sc, "video")
            => /\ sources_[sc] = <<>> => ret' = Ret("Scene.render", FALSE)
               /\ (/\ initialized_[sc]
                   /\ sources_[sc] = <<s>> /\ active_[s]
                   /\ ret = Ret("Source.start", "void"))
                    => /\ ret'.val = TRUE
                       /\ ret'.frame.width = 1920 /\ ret'.frame.height = 1080
               /\ (sources_[sc] = <<s>> /\ ~active_[s] /\ ret = Ret("Source.stop", "void"))
                    => ret' = Ret("Scene.render", FALSE)
      ]_vars

\* the render after start() is about to return the frame of the only source
C22_Witness ==
    LET c == client[MainThread] IN
    /\ c.op = "render" /\ c.pc = "fill" /\ c.kind = "video"
    /\ initialized_[c.sc] /\ sources_[c.sc] = <<c.s>> /\ active_[c.s]
    /\ ret = Ret("Source.start", "void")

\* C23: while a Source is inactive every getVideoFrame / getAudioFrame returns
\* false and leaves the out-frame as it was; only start() makes it active again.
C23_InactiveSourceDeliversNothing ==
    [][\A s \in SourceIds :
          /\ \A k \in {"video", "audio"} :
                (getFrame(s, k) /\ ~active_[s])
                    => /\ ret'.op = "Source.getFrame" /\ ret'.val = FALSE
                       /\ ret'.frame = EmptyFrame
                       /\ UNCHANGED <<sceneVars, sourceVars>>
          /\ (~active_[s] /\ active_'[s]) => start(s)
      ]_vars

C23_Witness ==
    /\ Quiet
    /\ ret.op = "Source.getFrame" /\ ret.val = FALSE
    /\ ~active_[ret.arg]
    /\ \E sc \in SceneIds : initialized_[sc] /\ ret.arg \in Range(sources_[sc])

\* C24: start() leaves isActive() true and stop() leaves it false whatever the
\* state before, touching nothing else; on a source already in that state the
\* call changes no flag (twice in a row is the same as once).
C24_StartStopIdempotent ==
    [][\A s \in SourceIds :
          /\ start(s)
                => /\ active_' = [active_ EXCEPT ![s] = TRUE]
                   /\ active_[s] => UNCHANGED active_
                   /\ UNCHANGED <<engineVars, sceneVars>>
          /\ stop(s)
                => /\ active_' = [active_ EXCEPT ![s] = FALSE]
                   /\ ~active_[s] => UNCHANGED active_
                   /\ UNCHANGED <<engineVars, sceneVars>>
      ]_vars

C24_Witness ==
    /\ Quiet
    /\ ret = Ret("Source.start", "void")
    /\ \A s \in SourceIds : isActive(s)

\* C25: initialize() on an initialized Scene returns true and changes nothing:
\* not the flag, not the collection, not an active flag.
C25_InitializeIdempotent ==
    [][\A sc \in SceneIds :
          (SceneInitialize(sc) /\ initialized_[sc])
            => /\ ret' = Ret("Scene.initialize", TRUE)
               /\ UNCHANGED <<engineVars, sceneVars, sourceVars>>
      ]_vars

C25_Witness ==
    /\ Quiet
    /\ ret = Ret("Scene.initialize", TRUE)
    /\ \E sc \in SceneIds :
          /\ initialized_[sc]
          /\ Len(sources_[sc]) >= 2
          /\ \E s \in Range(sources_[sc]) : active_[s]

\* C26: shutdown() is safe from any state, any number of times: a second
\* shutdown() in a row changes nothing, and a shutdown() before initialize()
\* returns and leaves the component quiescent (a Source inactive, a Scene
\* uninitialized with none of its sources active).
C26_ShutdownSafeFromAnyState ==
    [][/\ \A sc \in SceneIds :
            /\ (sceneShutdown_call(MainThread, sc)
                    /\ ret.op = "Scene.shutdown" /\ ret.arg = sc)
                  => /\ UNCHANGED <<sceneVars, sourceVars>>
                     /\ client'[MainThread].pc = "idle"
            /\ (sceneShutdown_call(MainThread, sc) /\ ~initialized_[sc])
                  => /\ client'[MainThread].pc = "idle"
                     /\ ~initialized_'[sc]
                     /\ \A s \in Range(sources_'[sc]) : ~active_'[s]
       /\ \A s \in SourceIds :
            sourceShutdown(s)
                  => /\ ~active_'[s]
                     /\ ret = RetArg("Source.shutdown", s) => UNCHANGED vars
      ]_vars

\* C27: Source.shutdown() forces deactivation: when it returns isActive() is
\* false, whatever the state before, and a getVideoFrame / getAudioFrame that
\* follows returns false.
C27_SourceShutdownDeactivates ==
    [][\A s \in SourceIds :
          /\ sourceShutdown(s)
                => /\ ~isActive(s)'
                   /\ active_' = [active_ EXCEPT ![s] = FALSE]
          /\ \A k \in {"video", "audio"} :
                (getFrame(s, k) /\ ret = RetArg("Source.shutdown", s))
                    => ret'.val = FALSE /\ ret'.frame = EmptyFrame
      ]_vars

C27_Witness ==
    /\ Quiet
    /\ ret.op = "Source.shutdown"
    /\ ~isActive(ret.arg)
    /\ \E sc \in SceneIds : initialized_[sc] /\ sources_[sc] = <<ret.arg>>

C29_ReplacedSceneUnaffected ==
    [][\A n \in Names :
          (createScene(n) /\ scenes_[n] # 0 /\ held[scenes_[n]])
            => LET old == scenes_[n] IN
                 /\ alive'[old] /\ held'[old]
                 /\ name_'[old] = name_[old]
                 /\ initialized_'[old] = initialized_[old]
                 /\ sources_'[old] = sources_[old]
                 /\ \A s \in Range(sources_[old]) : active_'[s] = active_[s]
                 /\ \A m \in Names \ {n} : scenes_'[m] = scenes_[m]
      ]_vars

\* a replaced Scene, still held, is rendering a frame of its active source
C29_Witness ==
    LET c == client[MainThread] IN
    /\ c.op = "render" /\ c.pc = "fill"
    /\ alive[c.sc] /\ held[c.sc] /\ ~Registered(c.sc)
    /\ ret.op = "createScene" /\ name_[ret.val] = name_[c.sc]

\* C30: createSource / createEncoder / createOutput / createFilter return no
\* component for every id, without throwing and without changing the Engine
\* (scene table, streaming flag, thread) or any Scene or Source.
C30_FactoriesReturnNothing ==
    [][\A op \in Factories, id \in Ids :
          createComponent(op, id)
            => /\ ret' = Ret(op, 0)
               /\ caller' = "idle"
               /\ UNCHANGED <<engineVars, thread, sceneVars, sourceVars>>
      ]_vars

C30_Witness ==
    /\ ret.op \in Factories /\ ret.val = 0
    /\ caller = "idle"
    /\ isStreaming /\ Running # {}
    /\ \E n \in Names : scenes_[n] # 0

\* C31: Engine.shutdown() shuts down all components: when it has returned, every
\* Scene registered in the Engine is shut down (not initialized) and none of
\* their sources is active.
C31_ShutdownShutsScenesDown ==
    (ret.op = "shutdown" /\ caller = "idle")
        => \A n \in Names :
              scenes_[n] # 0
                => /\ ~initialized_[scenes_[n]]
                   /\ \A s \in Range(sources_[scenes_[n]]) : ~active_[s]

StreamState ==
    IF streaming_ THEN "Running"
    ELSE IF streaming_thread_ # 0 THEN "Stopping"
    ELSE "Idle"

\* C33: the streaming state machine only goes Idle -> Running (by
\* startStreaming), Running -> Stopping (the stop signal set by stopStreaming,
\* shutdown or the destructor) and Stopping -> Idle (the loop has exited and the
\* thread is joined); never Idle -> Stopping, never Running -> Idle.
C33_StreamingTransitions ==
    [][\/ StreamState' = StreamState
       \/ /\ StreamState = "Idle" /\ StreamState' = "Running"
          /\ startStreaming
       \/ /\ StreamState = "Running" /\ StreamState' = "Stopping"
          /\ (stopStreaming \/ shutdown \/ DestroyImpl)
       \/ /\ StreamState = "Stopping" /\ StreamState' = "Idle"
          /\ join
          /\ thread[streaming_thread_] = "done"
      ]_vars

\* shutdown() has set the stop signal, the loop has exited, the join is due
C33_Witness ==
    /\ StreamState = "Stopping"
    /\ caller = "shutdown"
    /\ thread[streaming_thread_] = "done"
    /\ ticksAfterStop = 1

\* C34: the streaming loop ends only because of the stop signal: while
\* streaming_ is set a thread in the loop stays in it (the condition leads to a
\* tick, the tick back to the condition), whatever the Scenes would render, and
\* a thread leaves the loop only at the condition, with the flag cleared.
C34_LoopEndsOnlyOnStop ==
    [][\A t \in ThreadIds :
          /\ (thread[t] \in {"check", "tick"} /\ thread'[t] \notin {"check", "tick"})
                => (~streaming_ /\ LoopCheck(t) /\ thread'[t] = "done")
          /\ (streaming_ /\ LoopCheck(t)) => thread'[t] = "tick"
          /\ (streaming_ /\ LoopTick(t)) => thread'[t] = "check"
      ]_vars

\* the loop is in a tick while every registered Scene is uninitialized (a render
\* of any of them would return false)
C34_Witness ==
    /\ streaming_ /\ streaming_thread_ # 0
    /\ thread[streaming_thread_] = "tick"
    /\ \A n \in Names : scenes_[n] # 0 /\ ~initialized_[scenes_[n]]

\* C35: a Scene's lifecycle only moves forward: once shutdown() has run on an
\* initialized Scene (the call that returned last is that shutdown), no call
\* brings the Scene back to Initialized.
C35_ShutDownIsFinal ==
    [][\A sc \in SceneIds :
          (Quiet /\ ret = RetArg("Scene.shutdown", sc)) => ~initialized_'[sc]
      ]_vars

\* C36: streaming can be restarted: with one caller thread every startStreaming()
\* issued while idle, after any startStreaming / stopStreaming calls, finds the
\* handle empty and the earlier loop gone (the handle is never assigned while it
\* holds an unjoined thread), returns true and launches a fresh loop.
C36_RestartLaunchesFreshLoop ==
    [][(startStreaming /\ ~streaming_)
        => /\ streaming_thread_ = 0 /\ Threads = {}
           /\ ret' = Ret("startStreaming", TRUE)
           /\ caller' = "idle"
           /\ streaming_'
           /\ streaming_thread_' # 0
           /\ Running' = {streaming_thread_'}
           /\ ticksAfterStop' = 0
      ]_vars

\* idle again after a run: stopStreaming() has joined a loop that ticked once
\* more after the stop signal; the next startStreaming() is a restart
C36_Witness ==
    /\ ret = Ret("stopStreaming", "joined")
    /\ caller = "idle" /\ ~streaming_
    /\ streaming_thread_ = 0
    /\ ticksAfterStop = 1

\* ---- startStreaming called from several threads, one statement at a time -------
\* (no statement of Engine::Impl locks mutex_)
\* Engine::Impl::startStreaming: if (streaming_) return false
startStreaming_check(t) ==
    /\ caller = "idle" /\ client[t].pc = "idle"
    /\ IF streaming_
       THEN /\ client' = Done(t)
            /\ ret' = Ret("startStreaming", FALSE)
       ELSE /\ client' = [client EXCEPT ![t] =
                    [IdleClient EXCEPT !.op = "startStreaming", !.pc = "set"]]
            /\ UNCHANGED ret
    /\ UNCHANGED <<engineVars, thread, caller, sceneVars, sourceVars, ghostVars>>

\* Engine::Impl::startStreaming: streaming_ = true
startStreaming_set(t) ==
    /\ caller = "idle" /\ client[t].op = "startStreaming" /\ client[t].pc = "set"
    /\ streaming_' = TRUE
    /\ client' = [client EXCEPT ![t].pc = "launch"]
    /\ UNCHANGED <<scenes_, streaming_thread_, threadVars, sceneVars, sourceVars,
                   ghostVars>>

\* Engine::Impl::startStreaming: std::thread(...) starts the new thread, and the
\* move-assignment to streaming_thread_ reads joinable(): std::terminate if set
startStreaming_launch(t) ==
    /\ caller = "idle" /\ client[t].op = "startStreaming" /\ client[t].pc = "launch"
    /\ \E n \in ThreadIds : thread[n] = "none"
    /\ thread' = [thread EXCEPT ![FreeThread] = "check"]
    /\ ticksAfterStop' = 0
    /\ IF streaming_thread_ # 0
       THEN /\ caller' = "terminated"
            /\ UNCHANGED client
       ELSE /\ client' = [client EXCEPT ![t].pc = "assign", ![t].i = FreeThread]
            /\ UNCHANGED caller
    /\ UNCHANGED <<engineVars, ret, sceneVars, sourceVars, tickLog>>

\* Engine::Impl::startStreaming: the move-assignment writes the handle; return true
startStreaming_assign(t) ==
    /\ caller = "idle" /\ client[t].op = "startStreaming" /\ client[t].pc = "assign"
    /\ streaming_thread_' = client[t].i
    /\ client' = Done(t)
    /\ ret' = Ret("startStreaming", TRUE)
    /\ UNCHANGED <<scenes_, streaming_, thread, caller, sceneVars, sourceVars,
                   ghostVars>>

\* threads call startStreaming whenever they like; stopStreaming is called by one
\* of them when no start is in progress
NextStart ==
    \/ \E t \in ClientIds : startStreaming_check(t)
    \/ \E t \in ClientIds : startStreaming_set(t)
    \/ \E t \in ClientIds : startStreaming_launch(t)
    \/ \E t \in ClientIds : startStreaming_assign(t)
    \/ Quiet /\ stopStreaming
    \/ join
    \/ \E t \in ThreadIds : LoopCheck(t)
    \/ \E t \in ThreadIds : LoopTick(t)

SpecStart == Init /\ [][NextStart]_vars

\* C37: when two threads call startStreaming() concurrently while idle, the check
\* of the streaming flag and its setting are not both passed by the two callers:
\* at most one caller is past the check, at most one background thread runs the
\* loop, and no call ends in std::terminate.
C37_OneStartWins ==
    /\ Cardinality({t \in ClientIds :
            client[t].op = "startStreaming" /\ client[t].pc # "idle"}) <= 1
    /\ Cardinality(Running) <= 1
    /\ caller # "terminated"

\* ---- Scenes that hold the same Sources, used from one thread --------------------
\* the Source the Scenes share and one more
SharedPair == {s \in SourceIds : s <= SharedSource + 1}

\* MaxScenes SceneImpl objects constructed ("A", "B", "B", ...), the sources
\* constructed, no Engine call made
InitShare ==
    /\ scenes_ = [n \in Names |-> 0]
    /\ streaming_ = FALSE
    /\ streaming_thread_ = 0
    /\ thread = [t \in ThreadIds |-> "none"]
    /\ caller = "idle"
    /\ ret = Ret("SceneImpl", "void")
    /\ alive = [sc \in SceneIds |-> sc <= MaxScenes]
    /\ name_ = [sc \in SceneIds |->
                    IF sc = 1 THEN "A" ELSE IF sc <= MaxScenes THEN "B" ELSE ""]
    /\ initialized_ = [sc \in SceneIds |-> FALSE]
    /\ sources_ = [sc \in SceneIds |-> <<>>]
    /\ held = [sc \in SceneIds |-> sc <= MaxScenes]
    /\ active_ = [s \in SourceIds |-> FALSE]
    /\ client = [t \in ClientIds |-> IdleClient]
    /\ ticksAfterStop = 0
    /\ tickLog = <<>>

NextShare ==
    \/ \E sc \in SceneIds : Quiet /\ SceneInitialize(sc)
    \/ \E s \in SharedPair : Quiet /\ start(s)
    \/ \E sc \in SceneIds, s \in SharedPair : addSource_call(MainThread, sc, s)
    \/ addSource_push(MainThread)
    \/ \E sc \in SceneIds, s \in SharedPair : removeSource_call(MainThread, sc, s)
    \/ removeSource_erase(MainThread)
    \/ \E sc \in SceneIds : render_call(MainThread, sc, "video")
    \/ render_scan(MainThread)
    \/ getFrame_check(MainThread)
    \/ getFrame_fill(MainThread)

SpecShare == InitShare /\ [][NextShare]_vars

\* the source whose frame a render of sc returns in this state (0: render
\* returns false)
RenderResult(sc) == IF initialized_[sc] THEN FirstActive(sc) ELSE 0

\* a.removeSource(s) takes a step (the stop or the unlink) while b holds s too
RemoveSharedStep(a, b, s) ==
    /\ a # b /\ alive[b]
    /\ s \in Range(sources_[a]) /\ s \in Range(sources_[b])
    /\ \/ removeSource_call(MainThread, a, s)
       \/ /\ removeSource_erase(MainThread)
          /\ client[MainThread].sc = a /\ client[MainThread].s = s

\* C38 as stated: when a Source s is held by two Scenes A and B, A.removeSource(s)
\* has no effect on B: B's collection is unchanged and B.render returns the same
\* result after the call as before it.
C38_RemoveLeavesOtherSceneAlone ==
    [][\A a, b \in SceneIds, s \in SourceIds :
          RemoveSharedStep(a, b, s)
            => /\ sources_'[b] = sources_[b]
               /\ RenderResult(b)' = RenderResult(b)
      ]_vars

\* C38 amended: A.removeSource(s) leaves B's collection unchanged but stops s:
\* after it B.render does not return a frame from s, and returns what it
\* returned before when that was not a frame from s. (A render returns the
\* frame of RenderResult, or false when that is 0.)
C38_RemoveStopsSharedSource ==
    [][/\ \A a, b \in SceneIds, s \in SourceIds :
            RemoveSharedStep(a, b, s)
              => /\ sources_'[b] = sources_[b]
                 /\ initialized_'[b] = initialized_[b]
                 /\ RenderResult(b)' # s
                 /\ RenderResult(b) # s => RenderResult(b)' = RenderResult(b)
       /\ \A sc \in SceneIds :
            RenderReturns(sc, "video")
              => IF RenderResult(sc) = 0
                 THEN ret' = Ret("Scene.render", FALSE)
                 ELSE /\ ret'.val = TRUE
                      /\ ret'.frame = FilledFrame("video", RenderResult(sc))
      ]_vars

\* A.removeSource(s) has stopped s and is about to unlink it; B, initialized,
\* holds s too, and the call that returned last is a render that gave s's frame
C38_Witness ==
    LET c == client[MainThread] IN
    /\ c.op = "removeSource" /\ c.pc = "erase"
    /\ ret.op = "Scene.render" /\ ret.val = TRUE /\ ret.frame.src = c.s
    /\ \E b \in SceneIds \ {c.sc} :
          alive[b] /\ initialized_[b] /\ c.s \in Range(sources_[b])

\* C39: Scene.render (video or audio) is read-only: no step of it changes a
\* source collection, an initialized flag, an active flag or the Engine, and
\* when it returns false the out-frame is as it was passed in.
C39_RenderReadOnly ==
    [][(\/ \E sc \in SceneIds, k \in {"video", "audio"} : render_call(MainThread, sc, k)
        \/ render_scan(MainThread)
        \/ getFrame_check(MainThread)
        \/ getFrame_fill(MainThread))
        => /\ UNCHANGED <<engineVars, sceneVars, sourceVars>>
           /\ (client'[MainThread].pc = "idle" /\ ret'.val = FALSE)
                => ret' = Ret("Scene.render", FALSE)
      ]_vars

\* a render of an initialized Scene with two sources, none of them active, has
\* returned false, while a source outside the Scene is active
C39_Witness ==
    /\ Quiet
    /\ ret = Ret("Scene.render", FALSE)
    /\ \E sc \in SceneIds :
          /\ initialized_[sc] /\ Len(sources_[sc]) = 2
          /\ \A s \in Range(sources_[sc]) : ~active_[s]
          /\ \E s \in SourceIds \ Range(sources_[sc]) : active_[s]

\* C40: when createScene(name) replaces the mapping of a Scene nobody else
\* holds, that Scene is destroyed and its destruction runs shutdown: if it was
\* initialized each of its sources ends inactive, also one that another, still
\* registered Scene holds; no other active flag and no other Scene changes.
C40_ReplacementShutsOldSceneDown ==
    [][\A n \in Names :
          (createScene(n) /\ scenes_[n] # 0 /\ ~held[scenes_[n]])
            => LET old == scenes_[n]
                   new == ret'.val
               IN /\ alive[old] /\ ~alive'[old]
                  /\ \A s \in SourceIds :
                        active_'[s] =
                            (active_[s]
                                /\ ~(initialized_[old] /\ s \in Range(sources_[old])))
                  /\ \A sc \in SceneIds \ {old, new} :
                        /\ alive'[sc] = alive[sc]
                        /\ initialized_'[sc] = initialized_[sc]
                        /\ sources_'[sc] = sources_[sc]
      ]_vars

\* createScene("A") is about to replace a Scene only the table holds, initialized,
\* whose active source the Scene registered under another name holds too
C40_Witness ==
    /\ Quiet /\ caller = "idle"
    /\ \E n \in Names : \E m \in Names \ {n} :
          LET old == scenes_[n]
              other == scenes_[m]
          IN /\ old # 0 /\ other # 0
             /\ ~held[old] /\ initialized_[old]
             /\ Cardinality(LiveScenes \ {old}) < MaxScenes
             /\ \E s \in Range(sources_[old]) :
                   active_[s] /\ s \in Range(sources_[other])

====
